---------------------------- MODULE Spec2Model ----------------------------
(***************************************************************************)
(* Lenstra's elliptic-curve factorisation (src/main.py): the Point value,  *)
(* EllipticCurve.sum and EllipticCurve.mult over Z/NZ, and the Lenstra     *)
(* driver loop.                                                            *)
(*                                                                         *)
(* Three specifications share the variables:                               *)
(*   Spec     one run of Lenstra(N), one action per loop iteration;        *)
(*   SpecOps  direct calls of sum and mult on a freshly built curve;       *)
(*   SpecAll  either of the two (the variable run tells which).            *)
(***************************************************************************)
EXTENDS Integers, Sequences, FiniteSets

\* ------------------------------------------------------------- bounds
\* Lenstra(N) is run for every N in 2..MaxN.
MaxN == 15
\* The loop counter i of Lenstra is capped: iterations run while i <= MaxI.
MaxI == 6
\* Direct calls: the modulus ranges over the composite numbers up to MaxModulus,
MaxModulus == 15
\* the coordinates of the argument points over 0..MaxCoord,
MaxCoord == 3
\* the curve parameters a and b over 0..MaxParam,
MaxParam == 1
\* and the scalar k of mult over 1..MaxK.
MaxK == 7

\* ------------------------------------------------------------- values
\* Python's None: the point at infinity, and the value sum returns on failure.
None == [inf |-> TRUE]

\* Point(x, y): a record of the two coordinates, exactly as given.
Point(x, y) == [x |-> x, y |-> y]

\* Point.__eq__: same type and equal coordinates (no reduction modulo N).
PointEq(p, q) == p # None /\ q # None /\ p.x = q.x /\ p.y = q.y

Abs(n) == IF n < 0 THEN -n ELSE n

RECURSIVE GcdNat(_, _)
GcdNat(m, n) == IF n = 0 THEN m ELSE GcdNat(n, m % n)

\* math.gcd: the non-negative greatest common divisor; gcd(0, n) = |n|.
Gcd(m, n) == GcdNat(Abs(m), Abs(n))

\* inverse(a, n) = pow(a, -1, n): the b in [0, n) with a*b = 1 (mod n).
\* Python raises ValueError when there is none; sum only calls it after
\* checking gcd(a, n) = 1.
inverse(a, n) == CHOOSE b \in 0..(n - 1) : (a * b) % n = 1 % n

\* ---------------------------------------------------- EllipticCurve.sum
\* The curve is the record E = [a, b, N, div].  A call returns the value
\* returned and the curve's div after the call.  CannotAdd is raised and
\* caught inside sum itself, so the caller only ever sees None.
SumFail(d) == [ret |-> None, div |-> d, failed |-> TRUE]

\* SumDouble with div set to the denominator itself instead of its gcd with N.
SumDoubleNoGcd(E, p) ==
    LET d == Gcd(2 * p.y, E.N) IN
    IF d # 1 THEN SumFail(2 * p.y)
    ELSE LET slope == (3 * p.x * p.x + E.a) * inverse(2 * p.y, E.N)
             x == (slope * slope - 2 * p.x) % E.N
             y == (slope * (p.x - x) - p.y) % E.N
         IN [ret |-> Point(x, y), div |-> E.div, failed |-> FALSE]

\* SumDouble that raises CannotAdd without recording the gcd in div.
SumDoubleNoRecord(E, p) ==
    LET d == Gcd(2 * p.y, E.N) IN
    IF d # 1 THEN SumFail(E.div)
    ELSE LET slope == (3 * p.x * p.x + E.a) * inverse(2 * p.y, E.N)
             x == (slope * slope - 2 * p.x) % E.N
             y == (slope * (p.x - x) - p.y) % E.N
         IN [ret |-> Point(x, y), div |-> E.div, failed |-> FALSE]

\* SumDouble with the reduction modulo N of y left out.
SumDoubleNoMod(E, p) ==
    LET d == Gcd(2 * p.y, E.N) IN
    IF d # 1 THEN SumFail(d)
    ELSE LET slope == (3 * p.x * p.x + E.a) * inverse(2 * p.y, E.N)
             x == (slope * slope - 2 * p.x) % E.N
             y == slope * (p.x - x) - p.y
         IN [ret |-> Point(x, y), div |-> E.div, failed |-> FALSE]

SumDouble(E, p) ==
    LET d == Gcd(2 * p.y, E.N) IN
    IF d # 1 THEN SumFail(d)
    ELSE LET slope == (3 * p.x * p.x + E.a) * inverse(2 * p.y, E.N)
             x == (slope * slope - 2 * p.x) % E.N
             y == (slope * (p.x - x) - p.y) % E.N
         IN [ret |-> Point(x, y), div |-> E.div, failed |-> FALSE]

\* SumChord that raises CannotAdd without recording the gcd in div.
SumChordNoRecord(E, p, q) ==
    LET d == Gcd(q.x - p.x, E.N) IN
    IF d # 1 THEN SumFail(E.div)
    ELSE LET slope == (q.y - p.y) * inverse(q.x - p.x, E.N)
             x3 == (slope * slope - p.x - q.x) % E.N
             y3 == (slope * (p.x - x3) - p.y) % E.N
         IN [ret |-> Point(x3, y3), div |-> E.div, failed |-> FALSE]

\* SumChord that records the gcd in div on every call, not only on failure.
SumChordAlwaysRecords(E, p, q) ==
    LET d == Gcd(q.x - p.x, E.N) IN
    IF d # 1 THEN SumFail(d)
    ELSE LET slope == (q.y - p.y) * inverse(q.x - p.x, E.N)
             x3 == (slope * slope - p.x - q.x) % E.N
             y3 == (slope * (p.x - x3) - p.y) % E.N
         IN [ret |-> Point(x3, y3), div |-> d, failed |-> FALSE]

\* SumChord with the sign of (p.x - x3) slipped in y3.
SumChordWrongY(E, p, q) ==
    LET d == Gcd(q.x - p.x, E.N) IN
    IF d # 1 THEN SumFail(d)
    ELSE LET slope == (q.y - p.y) * inverse(q.x - p.x, E.N)
             x3 == (slope * slope - p.x - q.x) % E.N
             y3 == (slope * (x3 - p.x) - p.y) % E.N
         IN [ret |-> Point(x3, y3), div |-> E.div, failed |-> FALSE]

SumChord(E, p, q) ==
    LET d == Gcd(q.x - p.x, E.N) IN
    IF d # 1 THEN SumFail(d)
    ELSE LET slope == (q.y - p.y) * inverse(q.x - p.x, E.N)
             x3 == (slope * slope - p.x - q.x) % E.N
             y3 == (slope * (p.x - x3) - p.y) % E.N
         IN [ret |-> Point(x3, y3), div |-> E.div, failed |-> FALSE]

\* sum that returns q in both of its identity branches.
sumReturnsQ(E, p, q) ==
    IF p = None THEN [ret |-> q, div |-> E.div, failed |-> FALSE]
    ELSE IF q = None THEN [ret |-> q, div |-> E.div, failed |-> FALSE]
    ELSE IF PointEq(p, q) THEN SumDouble(E, p)
    ELSE SumChord(E, p, q)

sum(E, p, q) ==
    IF p = None THEN [ret |-> q, div |-> E.div, failed |-> FALSE]
    ELSE IF q = None THEN [ret |-> p, div |-> E.div, failed |-> FALSE]
    ELSE IF PointEq(p, q) THEN SumDouble(E, p)
    ELSE SumChord(E, p, q)

\* --------------------------------------------------- EllipticCurve.mult
\* bin(k)[2:]: the binary digits of k, most significant first.
RECURSIVE binary_expansion(_)
binary_expansion(k) ==
    IF k < 2 THEN << (IF k = 1 THEN "1" ELSE "0") >>
    ELSE Append(binary_expansion(k \div 2), IF k % 2 = 1 THEN "1" ELSE "0")

\* One entry of the log of the calls of sum that mult makes: the arguments,
\* the value returned and whether the call took the failure path.
CallEntry(p, q, r) == [p |-> p, q |-> q, ret |-> r.ret, failed |-> r.failed]

\* The first loop of mult, n iterations: each appends
\* sum(powers_of_two[-1], powers_of_two[-1]).  st = [E, pows, calls].
RECURSIVE Doublings(_, _)
Doublings(st, n) ==
    IF n = 0 THEN st
    ELSE LET last == st.pows[Len(st.pows)]
             r == sum(st.E, last, last)
         IN Doublings([E |-> [st.E EXCEPT !.div = r.div],
                       pows |-> Append(st.pows, r.ret),
                       calls |-> Append(st.calls, CallEntry(last, last, r))],
                      n - 1)

\* The second loop of mult from (1-based) position j of bits on: where the
\* digit is "1", q = sum(powers_of_two[i], q) with i = j - 1 the 0-based
\* index of enumerate.  st = [E, q, calls, used]; used collects the indices
\* i of the powers_of_two entries that were added.
RECURSIVE Accumulate(_, _, _, _)
Accumulate(st, pows, bits, j) ==
    IF j > Len(bits) THEN st
    ELSE IF bits[j] = "1"
         THEN LET r == sum(st.E, pows[j], st.q)
              IN Accumulate([E |-> [st.E EXCEPT !.div = r.div],
                             q |-> r.ret,
                             calls |-> Append(st.calls, CallEntry(pows[j], st.q, r)),
                             used |-> st.used \cup {j - 1}],
                            pows, bits, j + 1)
         ELSE Accumulate(st, pows, bits, j + 1)

\* mult(p, k): the value returned, div after the call, the log of the calls
\* of sum and the indices of the powers added.  The except clause of mult is
\* never taken, since sum never lets CannotAdd out.
mult(E, p, k) ==
    IF p = None
    THEN [ret |-> None, div |-> E.div, calls |-> << >>, used |-> {}]
    ELSE LET bits == binary_expansion(k)
             m == Len(bits)
             d == Doublings([E |-> E, pows |-> << p >>, calls |-> << >>], m - 1)
             s == Accumulate([E |-> d.E, q |-> None, calls |-> d.calls, used |-> {}],
                             d.pows, bits, 1)
         IN [ret |-> s.q, div |-> s.E.div, calls |-> s.calls, used |-> s.used]

\* --------------------------------------------------------------- state
VARIABLES
    pc,         \* "loop", "done": where Lenstra(N) is; "api": direct calls
    E,          \* the EllipticCurve object: [a, b, N, div]
    point,      \* Lenstra's local point
    i,          \* Lenstra's local i
    result,     \* the value Lenstra returned (0 before it returns)
    op,         \* the last call made on E: "new" (none yet), "sum", "mult"
    p, q, k,    \* the arguments of the calls: sum(p, q), mult(p, k)
    ret,        \* the value the last call returned
    divBefore,  \* E.div when the last call was made
    calls,      \* the calls of sum the last mult made, in order
    used        \* the indices of powers_of_two the last mult added

vars == << pc, E, point, i, result, op, p, q, k, ret, divBefore, calls, used >>

\* EllipticCurve.__init__
EllipticCurve(a, b, N) == [a |-> a, b |-> b, N |-> N, div |-> 1]

\* The b that Lenstra derives so that (x0, y0) lies on the curve.
CurveB(x0, y0, a, N) == (y0 * y0 - x0 * x0 * x0 - a * x0) % N

\* ------------------------------------------------------------- Lenstra
\* Lenstra(N) up to the loop: x0, y0, a drawn from [1, N].
InitLenstra ==
    \E N \in 2..MaxN :
      \E x0 \in 1..N, y0 \in 1..N, a \in 1..N :
        /\ pc = "loop"
        /\ E = EllipticCurve(a, CurveB(x0, y0, a, N), N)
        /\ point = Point(x0, y0)
        /\ i = 1
        /\ result = 0
        /\ op = "new" /\ p = None /\ q = None /\ k = 0 /\ ret = None
        /\ divBefore = 1 /\ calls = << >> /\ used = {}

\* LenstraStep with the loop condition E.div == 1 left out.
LenstraStepNoDivCheck ==
    /\ pc = "loop"
    /\ point # None
    /\ i <= MaxI
    /\ LET r == mult(E, point, i) IN
         /\ point' = r.ret
         /\ E' = [E EXCEPT !.div = r.div]
         /\ op' = "mult" /\ p' = point /\ k' = i /\ ret' = r.ret
         /\ divBefore' = E.div /\ calls' = r.calls /\ used' = r.used
    /\ i' = i + 1
    /\ UNCHANGED << pc, result, q >>

\* One iteration of the while loop: point = E.mult(point, i); i += 1.
LenstraStep ==
    /\ pc = "loop"
    /\ E.div = 1
    /\ point # None
    /\ i <= MaxI
    /\ LET r == mult(E, point, i) IN
         /\ point' = r.ret
         /\ E' = [E EXCEPT !.div = r.div]
         /\ op' = "mult" /\ p' = point /\ k' = i /\ ret' = r.ret
         /\ divBefore' = E.div /\ calls' = r.calls /\ used' = r.used
    /\ i' = i + 1
    /\ UNCHANGED << pc, result, q >>

\* The loop ends (its condition fails, or the break on point == None) and
\* Lenstra returns E.div.
LenstraReturn ==
    /\ pc = "loop"
    /\ ~(E.div = 1 /\ point # None)
    /\ pc' = "done"
    /\ result' = E.div
    /\ UNCHANGED << E, point, i, op, p, q, k, ret, divBefore, calls, used >>

Next == LenstraStep \/ LenstraReturn

Spec == InitLenstra /\ [][Next]_vars

\* -------------------------------------------------------- direct calls
\* The moduli of the curves that are called directly: N composite, as the
\* program's description has it ("the number to factor").
IsComposite(n) == \E d \in 2..(n - 1) : n % d = 0

Moduli == { n \in 2..MaxModulus : IsComposite(n) }

ArgPoints == { Point(x, y) : x \in 0..MaxCoord, y \in 0..MaxCoord } \cup {None}

\* The scalars of the direct calls of mult.
ArgScalars == 1..MaxK

\* A curve built through the argument p (as Lenstra builds it through its
\* point), and the arguments of the calls to come, each drawn on its own:
\* sum(p, q) and mult(p, k) are then called in any order, any number of times.
InitOps ==
    \E N \in Moduli, a \in 0..MaxParam, pp \in ArgPoints, qq \in ArgPoints,
       kk \in ArgScalars :
        /\ pc = "api"
        /\ E = EllipticCurve(a, IF pp = None THEN 0 ELSE CurveB(pp.x, pp.y, a, N), N)
        /\ p = pp /\ q = qq /\ k = kk
        /\ point = None /\ i = 0 /\ result = 0
        /\ op = "new" /\ ret = None
        /\ divBefore = 1 /\ calls = << >> /\ used = {}

\* E.sum(p, q)
CallSum ==
    /\ pc = "api"
    /\ LET r == sum(E, p, q) IN
         /\ ret' = r.ret
         /\ E' = [E EXCEPT !.div = r.div]
    /\ op' = "sum" /\ divBefore' = E.div /\ calls' = << >> /\ used' = {}
    /\ UNCHANGED << pc, point, i, result, p, q, k >>

\* E.mult(p, k)
CallMult ==
    /\ pc = "api"
    /\ LET r == mult(E, p, k) IN
         /\ ret' = r.ret
         /\ E' = [E EXCEPT !.div = r.div]
         /\ calls' = r.calls /\ used' = r.used
    /\ op' = "mult" /\ divBefore' = E.div
    /\ UNCHANGED << pc, point, i, result, p, q, k >>

NextOps == CallSum \/ CallMult

SpecOps == InitOps /\ [][NextOps]_vars

\* ------------------------------------------------------ both together
InitAll == InitLenstra \/ InitOps

NextAll == LenstraStep \/ LenstraReturn \/ CallSum \/ CallMult

SpecAll == InitAll /\ [][NextAll]_vars

\* ============================================================== claims
\* The curve as it was when the last call was made.
EBefore == [E EXCEPT !.div = divBefore]

\* Both coordinates in [0, N).
InRange(pt) == pt.x \in 0..(E.N - 1) /\ pt.y \in 0..(E.N - 1)

\* y^2 = x^3 + a*x + b (mod N)
OnCurve(pt) == (pt.y * pt.y - pt.x * pt.x * pt.x - E.a * pt.x - E.b) % E.N = 0

InLenstra == pc \in {"loop", "done"}

\* Some call of sum in the log took the failure path.
SomeFailure(log) == \E j \in 1..Len(log) : log[j].failed

\* k*P by successive addition: P, sum(P, P), sum(sum(P, P), P), ...
\* n additions of P in all; failed tells whether some sum took the failure path.
RECURSIVE SuccessiveSum(_, _, _)
SuccessiveSum(C, P, n) ==
    IF n = 1 THEN [ret |-> P, E |-> C, failed |-> FALSE]
    ELSE LET prev == SuccessiveSum(C, P, n - 1)
             r == sum(prev.E, prev.ret, P)
         IN [ret |-> r.ret, E |-> [prev.E EXCEPT !.div = r.div],
             failed |-> prev.failed \/ r.failed]

RECURSIVE Pow2(_)
Pow2(j) == IF j = 0 THEN 1 ELSE 2 * Pow2(j - 1)

\* The exponents j of the set bits of n.
SetBits(n) == { j \in 0..(Len(binary_expansion(n)) - 1) : (n \div Pow2(j)) % 2 = 1 }

\* C1: with no failing sum, mult(P, k) is P added to itself k times, and the
\* powers 2^j*P it adds are those of the set bits of k.
C1_MultIsSuccessiveSum ==
    (/\ op = "mult" /\ p # None /\ k >= 1
     /\ ~SomeFailure(calls)
     /\ ~SuccessiveSum(EBefore, p, k).failed)
    => (ret = SuccessiveSum(EBefore, p, k).ret /\ used = SetBits(k))

\* C2: doubling consistency, mult(P, 2) = sum(P, P) when sum(P, P) does not fail.
C2_DoublingConsistency ==
    (op = "mult" /\ p # None /\ k = 2 /\ ~sum(EBefore, p, p).failed)
    => ret = sum(EBefore, p, p).ret

\* C3: once a sum inside mult(p, k) has failed, mult computes no further
\* doubling or addition of two concrete points and returns None.
C3_FailurePropagation ==
    (op = "mult" /\ p # None /\ k >= 1 /\ SomeFailure(calls))
    => /\ ret = None
       /\ \A j \in 1..Len(calls) : \A l \in (j + 1)..Len(calls) :
            calls[j].failed => (calls[l].p = None \/ calls[l].q = None)

\* C4: div is always a divisor of N in [1, N], and so is what Lenstra(N)
\* returns (for N = 6: one of 1, 2, 3, 6).
C4_FactorValidity ==
    /\ E.div \in 1..E.N /\ E.N % E.div = 0
    /\ pc = "done" => /\ result \in 1..E.N /\ E.N % result = 0
                      /\ E.N = 6 => result \in {1, 2, 3, 6}

C4_Witness == pc = "done" /\ E.N = 15 /\ result \in {3, 5}

\* C5: div is 1 at construction; sum on two concrete points returns None and
\* sets div to d when d # 1, and returns a concrete point and leaves div
\* alone when d = 1 (d the gcd of N with 2*p.y if p == q, with q.x - p.x if not).
C5_DivUpdatedExactlyOnFailure ==
    /\ op = "new" => E.div = 1
    /\ (op = "sum" /\ p # None /\ q # None) =>
         LET d == IF PointEq(p, q) THEN Gcd(2 * p.y, E.N) ELSE Gcd(q.x - p.x, E.N)
         IN /\ d # 1 => (ret = None /\ E.div = d)
            /\ d = 1 => (ret # None /\ E.div = divBefore)

\* A sum of two concrete points that succeeds on a curve whose div an
\* earlier failing call had already set, and leaves that div as it was.
C5_Witness ==
    /\ op = "sum" /\ p # None /\ q # None /\ ~PointEq(p, q)
    /\ Gcd(q.x - p.x, E.N) = 1
    /\ divBefore \notin {1, E.N}
    /\ ret # None /\ E.div = divBefore

\* C6: sum(P, None) and sum(None, P) return P itself and leave the curve
\* (a, b, N and div) as it was.
C6_IdentityLaw ==
    [][(op' = "sum" /\ pc = "api" /\ (p = None \/ q = None))
       => (ret' = (IF p = None THEN q ELSE p) /\ E' = E)]_vars

C6_Witness == op = "sum" /\ p # None /\ q = None /\ ret = p /\ E.div # 1

\* C7: Lenstra calls mult (and advances i) only while div = 1 and point is
\* not None; once div # 1 nothing but the return happens, and the value
\* returned is div as it then is.
C7_FoundTransition ==
    [][/\ i' # i => (E.div = 1 /\ point # None)
       /\ E.div # 1 => (i' = i /\ point' = point /\ E' = E /\ ret' = ret /\ k' = k)
       /\ pc' = "done" => (pc = "loop" /\ result' = E.div /\ E' = E)]_vars

C7_Witness ==
    pc = "done" /\ op = "mult" /\ divBefore = 1 /\ E.div # 1 /\ i = k + 1 /\ result = E.div

\* C8 as claimed: in Lenstra, every concrete point sum or mult returns, and
\* every concrete point the loop holds after a mult call, has both
\* coordinates in [0, N).
C8_Normalized ==
    InLenstra =>
      /\ \A j \in 1..Len(calls) : calls[j].ret # None => InRange(calls[j].ret)
      /\ (op = "mult" /\ ret # None) => InRange(ret)
      /\ (i > 1 /\ point # None) => InRange(point)

\* C8 as amended: a concrete point that sum computes from two concrete
\* arguments has both coordinates in [0, N); the identity branches of sum
\* return their argument as it is, so a concrete point returned by mult is
\* its argument p as it is or has both coordinates in [0, N), and the
\* coordinates of the point the loop holds are in [0, N].
C8_NormalizedOrUnchanged ==
    InLenstra =>
      /\ \A j \in 1..Len(calls) :
           LET c == calls[j] IN
             c.ret # None =>
               IF c.p # None /\ c.q # None THEN InRange(c.ret)
               ELSE c.ret = (IF c.p = None THEN c.q ELSE c.p)
      /\ (op = "mult" /\ ret # None) => (InRange(ret) \/ ret = p)
      /\ point # None => (point.x \in 0..E.N /\ point.y \in 0..E.N)
      /\ (i > 1 /\ point # None) => (InRange(point) \/ point = p)

C8_Witness ==
    /\ pc = "loop" /\ op = "mult" /\ k >= 2 /\ point = ret /\ ret = p
    /\ point.x = E.N /\ E.div = 1

\* C9: mult(p, k) on a concrete p with k >= 1 returns None only with
\* div # 1; the Lenstra loop never holds None with div = 1, and Lenstra
\* never returns 1.
C9_ExhaustedUnreachable ==
    /\ (op = "mult" /\ p # None /\ k >= 1 /\ ret = None) => E.div # 1
    /\ InLenstra => ~(point = None /\ E.div = 1)
    /\ pc = "done" => result > 1

C9_Witness ==
    pc = "done" /\ op = "mult" /\ ret = None /\ point = None /\ result = E.div /\ result > 1

\* C10: in Lenstra the initial point and every concrete point mult assigns
\* to the loop variable lie on the curve y^2 = x^3 + a*x + b (mod N).
C10_OnCurve == (InLenstra /\ point # None) => OnCurve(point)

C10_Witness ==
    pc = "loop" /\ op = "mult" /\ point # None /\ point # p /\ E.N = 15 /\ E.div = 1

=============================================================================
